---- MODULE Spec2Model ----
(***************************************************************************)
(* Model of gprMax/materials.py: the Material record and its update        *)
(* coefficients, process_materials, the frequency-domain evaluator         *)
(* calculate_er, and the two mixture synthesizers (PeplinskiSoil and       *)
(* GenBruggemanSoilMoon) with bruggerman_mixing_model.                     *)
(*                                                                         *)
(* Numbers.  A Python/numpy float is modelled as a fixed-point number with *)
(* resolution 1/Scale together with the IEEE specials: <<n, 1>> is the     *)
(* finite value n/Scale, <<1, 0>> is +inf, <<-1, 0>> is -inf and <<0, 0>>  *)
(* is NaN.  Every arithmetic operation rounds its exact result to the      *)
(* grid, as a float operation rounds to its format.  A complex number is a *)
(* pair <<re, im>> of such floats.  Physical constants are expressed in    *)
(* model units (e0 = m0 = 1, the water relaxation time = 1).               *)
(* A division of two Python floats raises ZeroDivisionError on a zero      *)
(* divisor; a division in which a numpy scalar or array element takes part *)
(* returns inf or NaN instead.  Operators that can raise return a record   *)
(* with an err field ("" when the call returns normally).                  *)
(***************************************************************************)
EXTENDS Integers, Sequences, FiniteSets, TLC

\* Resolution of the modelled floating-point format: values are multiples of 1/Scale.
Scale == 64

(***************************************************************************)
(* Floating-point arithmetic                                               *)
(***************************************************************************)
NaN == <<0, 0>>

Inf == <<1, 0>>

NegInf == <<-1, 0>>

Sgn(n) == IF n > 0 THEN 1 ELSE IF n < 0 THEN -1 ELSE 0

Abs(n) == IF n < 0 THEN -n ELSE n

\* n/d (d > 0) rounded to the nearest integer, halves up.
Rnd(n, d) == (2 * n + d) \div (2 * d)

\* The float nearest to the rational n/d (d > 0).
Q(n, d) == <<Rnd(n * Scale, d), 1>>

IsFinite(x) == x[2] = 1

IsNaN(x) == x = NaN

IsZero(x) == x = <<0, 1>>

FNeg(x) == <<-x[1], x[2]>>

FAdd(x, y) ==
    IF IsFinite(x) /\ IsFinite(y) THEN <<x[1] + y[1], 1>>
    ELSE IF IsNaN(x) \/ IsNaN(y) THEN NaN
    ELSE IF ~IsFinite(x) /\ ~IsFinite(y) THEN (IF x = y THEN x ELSE NaN)
    ELSE IF IsFinite(x) THEN y ELSE x

FSub(x, y) == FAdd(x, FNeg(y))

FMul(x, y) ==
    IF IsFinite(x) /\ IsFinite(y) THEN <<Rnd(x[1] * y[1], Scale), 1>>
    ELSE IF IsNaN(x) \/ IsNaN(y) \/ IsZero(x) \/ IsZero(y) THEN NaN
    ELSE <<Sgn(x[1]) * Sgn(y[1]), 0>>

\* IEEE division, as numpy performs it: x/0 is +-inf, 0/0 is NaN, nothing raises.
FDiv(x, y) ==
    IF IsNaN(x) \/ IsNaN(y) THEN NaN
    ELSE IF ~IsFinite(x) THEN
        (IF ~IsFinite(y) THEN NaN
         ELSE <<x[1] * (IF y[1] < 0 THEN -1 ELSE 1), 0>>)
    ELSE IF ~IsFinite(y) THEN <<0, 1>>
    ELSE IF y[1] = 0 THEN <<Sgn(x[1]), 0>>
    ELSE <<Rnd(x[1] * Scale * Sgn(y[1]), Abs(y[1])), 1>>

\* x >= y on floats; any comparison with NaN is false.
FGe(x, y) ==
    IF IsNaN(x) \/ IsNaN(y) THEN FALSE
    ELSE IF IsFinite(x) /\ IsFinite(y) THEN x[1] >= y[1]
    ELSE IF x = y THEN TRUE
    ELSE x = Inf \/ y = NegInf

FAbs(x) == <<Abs(x[1]), x[2]>>

\* The integer square root of n by bisection: lo*lo <= n < hi*hi throughout.
RECURSIVE ISqrtBetween(_, _, _)
ISqrtBetween(n, lo, hi) ==
    IF hi - lo <= 1 THEN lo
    ELSE LET mid == (lo + hi) \div 2
         IN  IF mid * mid <= n THEN ISqrtBetween(n, mid, hi) ELSE ISqrtBetween(n, lo, mid)

\* np.sqrt of a real float: NaN for a negative argument, rounded down to the grid.
FSqrt(x) ==
    IF IsNaN(x) \/ x = NegInf THEN NaN
    ELSE IF x = Inf THEN Inf
    ELSE IF x[1] < 0 THEN NaN
    ELSE <<ISqrtBetween(x[1] * Scale, 0, 46340), 1>>

RECURSIVE FSum(_)
FSum(s) == IF s = <<>> THEN <<0, 1>> ELSE FAdd(Head(s), FSum(Tail(s)))

(***************************************************************************)
(* Complex arithmetic                                                      *)
(***************************************************************************)
Cx(re, im) == <<re, im>>

CZero == Cx(<<0, 1>>, <<0, 1>>)

COne == Cx(Q(1, 1), <<0, 1>>)

CReal(x) == Cx(x, <<0, 1>>)

CIsZero(z) == IsZero(z[1]) /\ IsZero(z[2])

CIsFinite(z) == IsFinite(z[1]) /\ IsFinite(z[2])

CAdd(a, b) == Cx(FAdd(a[1], b[1]), FAdd(a[2], b[2]))

CSub(a, b) == Cx(FSub(a[1], b[1]), FSub(a[2], b[2]))

CMul(a, b) ==
    Cx(FSub(FMul(a[1], b[1]), FMul(a[2], b[2])),
       FAdd(FMul(a[1], b[2]), FMul(a[2], b[1])))

\* Complex division as numpy computes it (Smith's method); a zero divisor
\* gives inf/NaN components and nothing raises.
CDiv(a, b) ==
    IF FGe(FAbs(b[1]), FAbs(b[2])) THEN
        IF CIsZero(b) THEN Cx(FDiv(a[1], FAbs(b[1])), FDiv(a[2], FAbs(b[1])))
        ELSE LET rat == FDiv(b[2], b[1])
                 scl == FDiv(Q(1, 1), FAdd(b[1], FMul(b[2], rat)))
             IN  Cx(FMul(FAdd(a[1], FMul(a[2], rat)), scl),
                    FMul(FSub(a[2], FMul(a[1], rat)), scl))
    ELSE LET rat == FDiv(b[1], b[2])
             scl == FDiv(Q(1, 1), FAdd(b[2], FMul(b[1], rat)))
         IN  Cx(FMul(FAdd(FMul(a[1], rat), a[2]), scl),
                FMul(FSub(FMul(a[2], rat), a[1]), scl))

\* np.exp on a complex argument, represented by its second-order expansion
\* 1 + z + z*z/2 evaluated in the model's arithmetic (exact at z = 0, NaN for NaN).
CExp(z) == CAdd(CAdd(COne, z), CMul(CMul(z, z), CReal(Q(1, 2))))

\* 2 * np.pi in the model's arithmetic.
TwoPi == Q(44, 7)

(***************************************************************************)
(* class Material                                                          *)
(***************************************************************************)
\* gprMax.constants.e0 and m0, in model units.
e0 == Q(1, 1)

m0 == Q(1, 1)

\* Material.waterer, watereri, waterdeltaer, watertau (class attributes).
waterer == Q(801, 10)

watereri == Q(49, 10)

waterdeltaer == FSub(waterer, watereri)

watertau == Q(1, 1)

\* The reserved name of the perfect electric conductor, as a character sequence.
PecID == <<"p", "e", "c">>

\* Material.__init__: a free-space material.  hasE, hasH and hasPoleArrays say
\* whether the attributes CA..srce, DA..srcm and w..eqt2 exist yet; npfloat and
\* npmag say whether er/se/deltaer and mr/sm hold numpy scalars (set by the
\* synthesizers), which decides how a division by zero behaves; ier is the
\* convergence flag of the root-finder for a Bruggeman material (1: converged).
Material(numID, ID) ==
    [numID |-> numID, ID |-> ID, type |-> "", averagable |-> TRUE,
     er |-> Q(1, 1), se |-> Q(0, 1), mr |-> Q(1, 1), sm |-> Q(0, 1),
     poles |-> 0, deltaer |-> <<>>, tau |-> <<>>, alpha |-> <<>>,
     npfloat |-> FALSE, npmag |-> FALSE, ier |-> 1,
     hasPoleArrays |-> FALSE,
     w |-> <<>>, q |-> <<>>, zt |-> <<>>, zt2 |-> <<>>, eqt |-> <<>>, eqt2 |-> <<>>,
     hasE |-> FALSE,
     CA |-> Q(0, 1), CBx |-> Q(0, 1), CBy |-> Q(0, 1), CBz |-> Q(0, 1), srce |-> Q(0, 1),
     hasH |-> FALSE,
     DA |-> Q(0, 1), DBx |-> Q(0, 1), DBy |-> Q(0, 1), DBz |-> Q(0, 1), srcm |-> Q(0, 1)]

\* The outcome of a method call: the object after it and the exception raised ("": none).
Outcome(self, err) == [self |-> self, err |-> err]

\* np.zeros(n, dtype=complextype)
zeros(n) == [k \in 1..n |-> CZero]

\* calculate_update_coeffsH
calculate_update_coeffsH(self, G) ==
    LET HA == FAdd(FDiv(FMul(m0, self.mr), G.dt), FMul(Q(1, 2), self.sm))
        HB == FSub(FDiv(FMul(m0, self.mr), G.dt), FMul(Q(1, 2), self.sm))
    IN  IF IsZero(HA) /\ ~self.npmag THEN Outcome(self, "ZeroDivisionError")
        ELSE Outcome([self EXCEPT !.hasH = TRUE,
                                  !.DA = FDiv(HB, HA),
                                  !.DBx = FDiv(FMul(FDiv(Q(1, 1), G.dx), Q(1, 1)), HA),
                                  !.DBy = FDiv(FMul(FDiv(Q(1, 1), G.dy), Q(1, 1)), HA),
                                  !.DBz = FDiv(FMul(FDiv(Q(1, 1), G.dz), Q(1, 1)), HA),
                                  !.srcm = FDiv(Q(1, 1), HA)], "")

\* (2 * np.pi * self.tau[x])**2
wp2(tau) == FMul(FMul(TwoPi, tau), FMul(TwoPi, tau))

\* The body of the pole loop up to the assignment of w[x] and q[x] (lines 104-119).
PoleParams(self, x) ==
    LET i == x + 1 IN
    IF self.type = "debye" THEN
        IF i > Len(self.deltaer) \/ i > Len(self.tau) THEN Outcome(self, "IndexError")
        ELSE IF IsZero(self.tau[i]) /\ ~self.npfloat THEN Outcome(self, "ZeroDivisionError")
        ELSE IF i > Len(self.w) THEN Outcome(self, "IndexError")
        ELSE IF IsZero(self.tau[i])
             THEN Outcome([self EXCEPT !.w[i] = CReal(FDiv(self.deltaer[i], self.tau[i]))],
                          "ZeroDivisionError")
        ELSE Outcome([self EXCEPT !.w[i] = CReal(FDiv(self.deltaer[i], self.tau[i])),
                                  !.q[i] = CReal(FDiv(Q(-1, 1), self.tau[i]))], "")
    ELSE IF self.type = "lorentz" THEN
        IF i > Len(self.deltaer) \/ i > Len(self.tau) \/ i > Len(self.alpha)
        THEN Outcome(self, "IndexError")
        ELSE IF i > Len(self.w) THEN Outcome(self, "IndexError")
        ELSE LET root == FSqrt(FSub(wp2(self.tau[i]), FMul(self.alpha[i], self.alpha[i])))
             IN  Outcome([self EXCEPT
                     !.w[i] = CMul(Cx(Q(0, 1), Q(-1, 1)),
                                   CReal(FDiv(FMul(wp2(self.tau[i]), self.deltaer[i]), root))),
                     !.q[i] = CAdd(CReal(FNeg(self.alpha[i])),
                                   CMul(Cx(Q(0, 1), Q(1, 1)), CReal(root)))], "")
    ELSE IF self.type = "drude" THEN
        IF i > Len(self.tau) \/ i > Len(self.alpha) THEN Outcome(self, "IndexError")
        ELSE IF IsZero(self.alpha[i]) THEN Outcome(self, "ZeroDivisionError")
        ELSE LET se1 == FAdd(self.se, FDiv(wp2(self.tau[i]), self.alpha[i])) IN
             IF i > Len(self.w) THEN Outcome([self EXCEPT !.se = se1], "IndexError")
             ELSE Outcome([self EXCEPT
                     !.se = se1,
                     !.w[i] = CReal(FNeg(FDiv(wp2(self.tau[i]), self.alpha[i]))),
                     !.q[i] = CReal(FNeg(self.alpha[i]))], "")
    ELSE Outcome(self, "")

\* The assignments of lines 121-124, given e^(q dt), e^(q dt/2) and w/q.
PoleAssign(self, i, G, eqt, eqt2, wq) ==
    Outcome([self EXCEPT
        !.eqt[i] = eqt,
        !.eqt2[i] = eqt2,
        !.zt[i] = CDiv(CMul(wq, CSub(COne, eqt)), CReal(G.dt)),
        !.zt2[i] = CMul(wq, CSub(COne, eqt2))], "")

\* The recursive-convolution coefficients of pole x (lines 121-124).
PoleCoeffs(self, x, G) ==
    IF x + 1 > Len(self.q) THEN Outcome(self, "IndexError")
    ELSE PoleAssign(self, x + 1, G,
                    CExp(CMul(self.q[x + 1], CReal(G.dt))),
                    CExp(CMul(self.q[x + 1], CReal(FDiv(G.dt, Q(2, 1))))),
                    CDiv(self.w[x + 1], self.q[x + 1]))

\* for x in range(self.poles), from pole x on; an exception ends the loop.
RECURSIVE PoleLoop(_, _, _)
\* Lines 121-124 run when lines 104-119 (outcome p) raised nothing.
PoleBody(p, x, G) == IF p.err # "" THEN p ELSE PoleCoeffs(p.self, x, G)

\* The next iteration runs when this one (outcome c) raised nothing.
PoleNext(c, x, G) == IF c.err # "" THEN c ELSE PoleLoop(c.self, x + 1, G)

PoleLoop(self, x, G) ==
    IF x >= self.poles THEN Outcome(self, "")
    ELSE PoleNext(PoleBody(PoleParams(self, x), x, G), x, G)

\* self.w = np.zeros(self.maxpoles, ...) ... self.eqt2 = np.zeros(...) (lines 96-101).
AllocPoleArrays(self, maxpoles) ==
    [self EXCEPT !.hasPoleArrays = TRUE,
                 !.w = zeros(maxpoles), !.q = zeros(maxpoles),
                 !.zt = zeros(maxpoles), !.zt2 = zeros(maxpoles),
                 !.eqt = zeros(maxpoles), !.eqt2 = zeros(maxpoles)]

\* np.sum(self.zt2.real)
SumReal(zs) == FSum([k \in 1..Len(zs) |-> zs[k][1]])

\* The test of line 133 without its second half: the reserved name only.
IsPecByName(self) == self.ID = PecID

\* The test of line 133 for the perfect electric conductor.
IsPec(self) == self.ID = PecID \/ self.se = Inf

\* EA and EB of lines 126-131: <<EA, EB>>.
EAEB(self, G, maxpoles) ==
    IF maxpoles > 0
    THEN <<FSub(FAdd(FDiv(FMul(e0, self.er), G.dt), FMul(Q(1, 2), self.se)),
                FMul(FDiv(e0, G.dt), SumReal(self.zt2))),
           FSub(FSub(FDiv(FMul(e0, self.er), G.dt), FMul(Q(1, 2), self.se)),
                FMul(FDiv(e0, G.dt), SumReal(self.zt2)))>>
    ELSE <<FAdd(FDiv(FMul(e0, self.er), G.dt), FMul(Q(1, 2), self.se)),
           FSub(FDiv(FMul(e0, self.er), G.dt), FMul(Q(1, 2), self.se))>>

\* Lines 133-144.  EA is a numpy scalar (isnumpy) when np.sum or a numpy-typed
\* er/se took part in it; a Python float raises on a division by zero.
CoeffsE(self, EA, EB, G, isnumpy) ==
    IF IsPec(self)
    THEN Outcome([self EXCEPT !.hasE = TRUE, !.CA = Q(0, 1), !.CBx = Q(0, 1),
                              !.CBy = Q(0, 1), !.CBz = Q(0, 1), !.srce = Q(0, 1)], "")
    ELSE IF IsZero(EA) /\ ~isnumpy THEN Outcome(self, "ZeroDivisionError")
    ELSE Outcome([self EXCEPT !.hasE = TRUE,
                              !.CA = FDiv(EB, EA),
                              !.CBx = FDiv(FMul(FDiv(Q(1, 1), G.dx), Q(1, 1)), EA),
                              !.CBy = FDiv(FMul(FDiv(Q(1, 1), G.dy), Q(1, 1)), EA),
                              !.CBz = FDiv(FMul(FDiv(Q(1, 1), G.dz), Q(1, 1)), EA),
                              !.srce = FDiv(Q(1, 1), EA)], "")

\* Lines 126-144 run when the pole loop (outcome pre) raised nothing.
AfterPoles(pre, ab, G, maxpoles) ==
    IF pre.err # "" THEN pre
    ELSE CoeffsE(pre.self, ab[1], ab[2], G, maxpoles > 0 \/ pre.self.npfloat)

\* The pole arrays and the pole loop (lines 95-124), run when maxpoles > 0.
Poles(self, G, maxpoles) ==
    IF maxpoles > 0 THEN PoleLoop(AllocPoleArrays(self, maxpoles), 0, G)
    ELSE Outcome(self, "")

\* Lines 126-144 after the pole stage with outcome pre.
Coefficients(pre, G, maxpoles) == AfterPoles(pre, EAEB(pre.self, G, maxpoles), G, maxpoles)

\* calculate_update_coeffsE; maxpoles is the class attribute Material.maxpoles.
calculate_update_coeffsE(self, G, maxpoles) == Coefficients(Poles(self, G, maxpoles), G, maxpoles)

(***************************************************************************)
(* Material.calculate_er                                                   *)
(***************************************************************************)
\* The value returned by a function call, or the exception it raised.
Returned(value, err) == [value |-> value, err |-> err]

\* 1j
J == Cx(Q(0, 1), Q(1, 1))

\* One debye term added to er, given the denominator 1 + 1j * w * tau[p].
RECURSIVE DebyeTerms(_, _, _, _)
DebyeTerm(self, w, p, er, den) ==
    IF CIsZero(den) /\ ~self.npfloat THEN Returned(er, "ZeroDivisionError")
    ELSE DebyeTerms(self, w, p + 1, CAdd(er, CDiv(CReal(self.deltaer[p + 1]), den)))

\* The debye loop of calculate_er from pole p on (lines 164-165).
DebyeTerms(self, w, p, er) ==
    IF p >= self.poles THEN Returned(er, "")
    ELSE IF p + 1 > Len(self.deltaer) \/ p + 1 > Len(self.tau) THEN Returned(er, "IndexError")
    ELSE DebyeTerm(self, w, p, er,
                   CAdd(COne, CMul(CMul(J, CReal(w)), CReal(self.tau[p + 1]))))

\* One lorentz term added to er, given tau[p]**2 and the denominator.
RECURSIVE LorentzTerms(_, _, _, _)
LorentzTerm(self, w, p, er, tau2, den) ==
    IF CIsZero(den) /\ ~self.npfloat THEN Returned(er, "ZeroDivisionError")
    ELSE LorentzTerms(self, w, p + 1,
                      CAdd(er, CDiv(CReal(FMul(self.deltaer[p + 1], tau2)), den)))

\* The lorentz loop of calculate_er from pole p on (lines 167-168).
LorentzTerms(self, w, p, er) ==
    IF p >= self.poles THEN Returned(er, "")
    ELSE IF p + 1 > Len(self.deltaer) \/ p + 1 > Len(self.tau) \/ p + 1 > Len(self.alpha)
         THEN Returned(er, "IndexError")
    ELSE LorentzTerm(self, w, p, er,
             FMul(self.tau[p + 1], self.tau[p + 1]),
             CSub(CAdd(CReal(FMul(self.tau[p + 1], self.tau[p + 1])),
                       CMul(CMul(Cx(Q(0, 1), Q(2, 1)), CReal(w)), CReal(self.alpha[p + 1]))),
                  CReal(FMul(w, w))))

\* The drude loop continued with the updated sum ersum.
RECURSIVE DrudeTerms(_, _, _, _, _)
DrudeNext(self, w, p, er, ersum) == DrudeTerms(self, w, p + 1, CSub(er, ersum), ersum)

\* One drude term, given the denominator w**2 - 1j * w * alpha[p].
DrudeTerm(self, w, p, er, ersum, den) ==
    IF CIsZero(den) THEN Returned(er, "ZeroDivisionError")
    ELSE DrudeNext(self, w, p, er,
                   CAdd(ersum, CDiv(CReal(FMul(self.tau[p + 1], self.tau[p + 1])), den)))

\* The drude loop of calculate_er from pole p on (lines 170-173): ersum is not
\* reset between poles and is subtracted from er in every iteration.
DrudeTerms(self, w, p, er, ersum) ==
    IF p >= self.poles THEN Returned(er, "")
    ELSE IF p + 1 > Len(self.tau) \/ p + 1 > Len(self.alpha) THEN Returned(er, "IndexError")
    ELSE DrudeTerm(self, w, p, er, ersum,
                   CSub(CReal(FMul(w, w)), CMul(CMul(J, CReal(w)), CReal(self.alpha[p + 1]))))

\* Lines 163-173: the pole terms added to er.
PoleTerms(self, w, er) ==
    IF self.type = "debye" THEN DebyeTerms(self, w, 0, er)
    ELSE IF self.type = "lorentz" THEN LorentzTerms(self, w, 0, er)
    ELSE IF self.type = "drude" THEN DrudeTerms(self, w, 0, er, CZero)
    ELSE Returned(er, "")

\* Lines 160-162 given w = 2 * pi * freq and 1j * w * e0.
Dispersive(self, w, jwe0) ==
    IF CIsZero(jwe0) /\ ~self.npfloat THEN Returned(CReal(self.er), "ZeroDivisionError")
    ELSE PoleTerms(self, w, CAdd(CReal(self.er), CDiv(CReal(self.se), jwe0)))

\* The angular frequency of line 160 and the dispersive formula at it.
AtAngular(self, w) == Dispersive(self, w, CMul(CMul(J, CReal(w)), CReal(e0)))

\* calculate_er: the complex relative permittivity at frequency freq.
calculate_er(self, freq) ==
    IF self.poles > 0 THEN AtAngular(self, FMul(TwoPi, freq))
    ELSE Returned(CReal(self.er), "")

(***************************************************************************)
(* process_materials                                                       *)
(***************************************************************************)
\* The coefficient tables of the grid, as their caller allocates them before
\* process_materials: n rows of zeros (E and H: 5 columns; dispersive:
\* 3 * maxpoles columns).
ZeroTables(n, maxpoles) ==
    [E |-> [r \in 1..n |-> [c \in 1..5 |-> Q(0, 1)]],
     H |-> [r \in 1..n |-> [c \in 1..5 |-> Q(0, 1)]],
     D |-> [r \in 1..n |-> [c \in 1..(3 * maxpoles) |-> CZero]]]

\* The row of G.updatecoeffsdispersive of one material (lines 205-209).
DispersiveRow(material, maxpoles) ==
    [c \in 1..(3 * maxpoles) |->
        IF (c - 1) % 3 = 0 THEN CMul(CReal(e0), material.eqt2[((c - 1) \div 3) + 1])
        ELSE IF (c - 1) % 3 = 1 THEN material.eqt[((c - 1) \div 3) + 1]
        ELSE material.zt[((c - 1) \div 3) + 1]]

\* Lines 200-209: the rows of the tables of one material with its coefficients.
RECURSIVE ProcessFrom(_, _, _, _)
StoreRows(st, k, material, G, maxpoles) ==
    IF material.numID + 1 > Len(st.E)
    THEN [st EXCEPT !.materials[k] = material, !.err = "IndexError"]
    ELSE ProcessFrom(
             [st EXCEPT
                 !.materials[k] = material,
                 !.E[material.numID + 1] = <<material.CA, material.CBx, material.CBy,
                                             material.CBz, material.srce>>,
                 !.H[material.numID + 1] = <<material.DA, material.DBx, material.DBy,
                                             material.DBz, material.srcm>>,
                 !.D[material.numID + 1] = IF maxpoles > 0
                                           THEN DispersiveRow(material, maxpoles)
                                           ELSE @],
             k + 1, G, maxpoles)

\* Line 197 with outcome h, then the rows.
AfterH(st, k, h, G, maxpoles) ==
    IF h.err # "" THEN [st EXCEPT !.materials[k] = h.self, !.err = h.err]
    ELSE StoreRows(st, k, h.self, G, maxpoles)

\* Line 196 with outcome e, then line 197.
AfterE(st, k, e, G, maxpoles) ==
    IF e.err # "" THEN [st EXCEPT !.materials[k] = e.self, !.err = e.err]
    ELSE AfterH(st, k, calculate_update_coeffsH(e.self, G), G, maxpoles)

\* The loop of process_materials from position k on (lines 195-209).  st holds
\* the collection, the three tables and the exception raised so far.
ProcessFrom(st, k, G, maxpoles) ==
    IF k > Len(st.materials) THEN st
    ELSE AfterE(st, k, calculate_update_coeffsE(st.materials[k], G, maxpoles), G, maxpoles)

\* process_materials(G): every material's coefficients, stored in the tables.
\* The table of display strings it returns is not part of the program's state.
process_materials(materials, tables, G, maxpoles) ==
    ProcessFrom([materials |-> materials, E |-> tables.E, H |-> tables.H,
                 D |-> tables.D, err |-> ""], 1, G, maxpoles)

(***************************************************************************)
(* Material names and numeric helpers of the synthesizers                  *)
(***************************************************************************)
\* str(n) for an integer n >= 0, as a sequence of characters.
RECURSIVE str(_)
str(n) ==
    LET digit == <<"0", "1", "2", "3", "4", "5", "6", "7", "8", "9">>[(n % 10) + 1]
    IN  IF n < 10 THEN <<digit>> ELSE str(n \div 10) \o <<digit>>

\* s.zfill(width)
RECURSIVE zfill(_, _)
zfill(s, width) == IF Len(s) >= width THEN s ELSE zfill(<<"0">> \o s, width)

\* '|{}_{}|'.format(fractalboxname, str(index).zfill(len(str(int(nbins)))))
materialID(fractalboxname, index, nbins) ==
    <<"|">> \o fractalboxname \o <<"_">> \o zfill(str(index), Len(str(nbins))) \o <<"|">>

\* np.linspace(start, stop, num) for num >= 1.
linspace(start, stop, num) ==
    IF num = 1 THEN <<start>>
    ELSE LET step == FDiv(FSub(stop, start), Q(num - 1, 1))
         IN  [k \in 1..num |-> IF k = num THEN stop ELSE FAdd(FMul(Q(k - 1, 1), step), start)]

RECURSIVE IPow(_, _)
IPow(x, k) == IF k = 0 THEN Q(1, 1) ELSE FMul(x, IPow(x, k - 1))

\* x ** y on floats, with the exponent rounded to the nearest integer: NaN for a
\* negative base with a fractional exponent, 0 for a zero base with y > 0.
FPow(x, y) ==
    IF IsNaN(x) \/ ~IsFinite(y) THEN NaN
    ELSE LET k == Rnd(y[1], Scale)
             whole == y[1] % Scale = 0
         IN  IF x[1] < 0 /\ ~whole THEN NaN
             ELSE IF IsZero(x) THEN (IF y[1] > 0 THEN Q(0, 1) ELSE IF y[1] = 0 THEN Q(1, 1) ELSE Inf)
             ELSE IF k >= 0 THEN IPow(x, k)
             ELSE FDiv(Q(1, 1), IPow(x, -k))

(***************************************************************************)
(* class PeplinskiSoil                                                     *)
(***************************************************************************)
\* PeplinskiSoil.__init__
PeplinskiSoil(ID, sandfraction, clayfraction, bulkdensity, sandpartdensity, watervolfraction) ==
    [ID |-> ID, S |-> sandfraction, C |-> clayfraction, rb |-> bulkdensity,
     rs |-> sandpartdensity, mu |-> watervolfraction, startmaterialnum |-> 0]

\* f = 1.3e9 (line 283), in units of 1/watertau.
PeplinskiF == Q(12, 1000)

\* mubins + (mubins[1] - mubins[0]) / 2 (line 300); mubins[1] does not exist
\* when mubins has one element.
midpoints(mubins) ==
    IF Len(mubins) < 2 THEN Returned(<<>>, "IndexError")
    ELSE Returned([k \in 1..Len(mubins) |->
                      FAdd(mubins[k], FDiv(FSub(mubins[2], mubins[1]), Q(2, 1)))], "")

\* The volumetric water fractions the materials are made from (lines 298-300).
mumaterials(self, nbins) == midpoints(linspace(self.mu[1], self.mu[2], nbins))

\* erealw (lines 284-285).
erealw ==
    FAdd(watereri,
         FDiv(waterdeltaer,
              FAdd(Q(1, 1), FPow(FMul(FMul(TwoPi, PeplinskiF), watertau), Q(2, 1)))))

\* a = 0.65 (line 287).
PeplinskiA == Q(65, 100)

\* es, b1, b2 and sigf (lines 288-293).
es(self) == FSub(FPow(FAdd(Q(101, 100), FMul(Q(44, 100), self.rs)), Q(2, 1)), Q(62, 1000))

b1(self) == FSub(FSub(Q(12748, 10000), FMul(Q(519, 1000), self.S)), FMul(Q(152, 1000), self.C))

b2(self) == FSub(FSub(Q(133797, 100000), FMul(Q(603, 1000), self.S)), FMul(Q(166, 1000), self.C))

sigf(self) ==
    FAdd(FSub(FAdd(Q(467, 10000), FMul(Q(2204, 10000), self.rb)), FMul(Q(411, 1000), self.S)),
         FMul(Q(6614, 10000), self.C))

\* er of lines 306-308 at the water fraction mu.
PeplinskiEr(self, mu) ==
    FSub(FMul(Q(115, 100),
              FPow(FSub(FAdd(FAdd(Q(1, 1),
                                  FMul(FDiv(self.rb, self.rs),
                                       FSub(FPow(es(self), PeplinskiA), Q(1, 1)))),
                             FMul(FPow(mu, b1(self)), FPow(erealw, PeplinskiA))),
                        mu),
                   FDiv(Q(1, 1), PeplinskiA))),
         Q(68, 100))

\* eri of line 311, given er.
PeplinskiEri(self, mu, er) ==
    FSub(er, FMul(FPow(mu, FDiv(b2(self), PeplinskiA)), waterdeltaer))

\* sig of line 314.
PeplinskiSig(self, mu) ==
    FMul(FPow(mu, FDiv(b2(self), PeplinskiA)),
         FDiv(FMul(sigf(self), FSub(self.rs, self.rb)), FMul(self.rs, mu)))

\* The Material of lines 319-328, given er, eri and sig.
DebyeMaterial(numID, ID, er, eri, sig) ==
    [Material(numID, ID) EXCEPT
        !.type = "debye", !.averagable = FALSE, !.poles = 1,
        !.er = eri, !.se = sig,
        !.deltaer = <<FSub(er, eri)>>, !.tau = <<watertau>>,
        !.npfloat = TRUE]

\* The material of lines 306-329 numbered by muiter.index instead of by
\* len(G.materials).
PeplinskiMaterialByIndex(self, mu, index, nbins, numID, fractalboxname) ==
    DebyeMaterial(index, materialID(fractalboxname, index + 1, nbins),
                  PeplinskiEr(self, mu),
                  PeplinskiEri(self, mu, PeplinskiEr(self, mu)),
                  PeplinskiSig(self, mu))

\* The material made for one water fraction mu (lines 306-329); index is
\* muiter.index.
PeplinskiMaterial(self, mu, index, nbins, numID, fractalboxname) ==
    DebyeMaterial(numID, materialID(fractalboxname, index + 1, nbins),
                  PeplinskiEr(self, mu),
                  PeplinskiEri(self, mu, PeplinskiEr(self, mu)),
                  PeplinskiSig(self, mu))

RECURSIVE PeplinskiBins(_, _, _, _, _, _, _)
\* Line 329 without lines 323-324: the material appended, the watermark as it was.
AppendBinOnly(self, mus, k, nbins, materials, maxpoles, fractalboxname, m) ==
    PeplinskiBins(self, mus, k + 1, nbins, Append(materials, m), maxpoles, fractalboxname)

\* Lines 323-324 and 329: the watermark and the collection with m appended.
AppendBin(self, mus, k, nbins, materials, maxpoles, fractalboxname, m) ==
    PeplinskiBins(self, mus, k + 1, nbins, Append(materials, m),
                  IF m.poles > maxpoles THEN m.poles ELSE maxpoles, fractalboxname)

\* The while loop over muiter (lines 304-331), from sample k on.
PeplinskiBins(self, mus, k, nbins, materials, maxpoles, fractalboxname) ==
    IF k > Len(mus) THEN [materials |-> materials, maxpoles |-> maxpoles]
    ELSE AppendBin(self, mus, k, nbins, materials, maxpoles, fractalboxname,
             PeplinskiMaterial(self, mus[k], k - 1, nbins, Len(materials), fractalboxname))

\* Lines 298-331 on the soil with its startmaterialnum set; mus is the outcome
\* of line 300.
PeplinskiLoop(self, mus, nbins, materials, maxpoles, fractalboxname) ==
    IF mus.err # ""
    THEN [self |-> self, materials |-> materials, maxpoles |-> maxpoles, err |-> mus.err,
          mumaterials |-> <<>>]
    ELSE [self |-> self, err |-> "", mumaterials |-> mus.value] @@
         PeplinskiBins(self, mus.value, 1, nbins, materials, maxpoles, fractalboxname)

\* PeplinskiSoil.calculate_debye_properties(nbins, G, fractalboxname): the soil
\* object, G.materials and Material.maxpoles after the call, the exception
\* raised, and the local mumaterials the materials were made from.
PeplinskiSoil_calculate_debye_properties(self, nbins, materials, maxpoles, fractalboxname) ==
    PeplinskiLoop([self EXCEPT !.startmaterialnum = Len(materials)],
                  mumaterials(self, nbins), nbins, materials, maxpoles, fractalboxname)

(***************************************************************************)
(* class GenBruggemanSoilMoon and bruggerman_mixing_model                  *)
(***************************************************************************)
\* The six minerals (lines 351-356), each <<permittivity, imaginary
\* permittivity, permeability, magnetic loss, density>>, in the order FeO, TiO2,
\* Al2O3, MgO, SiO2, CaO; eps_0 is e0 and the imaginary parts of the last four
\* are below the resolution of the arithmetic.
Minerals(omega) ==
    << <<FMul(Q(142, 10), e0), FDiv(Q(1, 100), omega), Q(1001, 1000), Q(0, 1), Q(574, 100)>>,
       <<FMul(Q(86, 1), e0), FDiv(Q(1, 10000), omega), Q(1, 1), Q(0, 1), Q(423, 100)>>,
       <<FMul(Q(934, 100), e0), FDiv(Q(0, 1), omega), Q(1, 1), Q(0, 1), Q(395, 100)>>,
       <<FMul(Q(965, 100), e0), FDiv(Q(0, 1), omega), Q(1, 1), Q(0, 1), Q(358, 100)>>,
       <<FMul(Q(358, 100), e0), FDiv(Q(0, 1), omega), Q(1, 1), Q(0, 1), Q(265, 100)>>,
       <<FMul(Q(118, 10), e0), FDiv(Q(0, 1), omega), Q(1, 1), Q(0, 1), Q(335, 100)>> >>

\* wt / densities (line 363)
VolumeFractions(wt, minerals) == [i \in 1..6 |-> FDiv(wt[i], minerals[i][5])]

\* The soil object, given its minerals.
MoonSoil(ID, minerals, wt_all_low, wt_all_high) ==
    [ID |-> ID, minerals |-> minerals,
     vol_fr_all_range |-> <<VolumeFractions(wt_all_low, minerals),
                            VolumeFractions(wt_all_high, minerals)>>,
     startmaterialnum |-> 0]

\* GenBruggemanSoilMoon.__init__; wt_all_low and wt_all_high are the weight
\* fractions in the order of the minerals.
GenBruggemanSoilMoon(ID, wt_all_low, wt_all_high, fr) ==
    MoonSoil(ID, Minerals(FMul(TwoPi, fr)), wt_all_low, wt_all_high)

\* The two sums of the residual function (lines 409-413), from mineral i on.
RECURSIVE equation_sums(_, _, _, _, _, _)
equation_sums(epsilon_eff, volume_fractions, epsilon_values, i, numerator, denominator) ==
    IF i > Len(volume_fractions) THEN <<numerator, denominator>>
    ELSE equation_sums(epsilon_eff, volume_fractions, epsilon_values, i + 1,
             CAdd(numerator,
                  CMul(CSub(epsilon_values[i], epsilon_eff), CReal(volume_fractions[i]))),
             CAdd(denominator,
                  CMul(CAdd(epsilon_values[i], CMul(CReal(Q(2, 1)), epsilon_eff)),
                       CReal(volume_fractions[i]))))

\* result = numerator / denominator (line 414)
ratio(sums) == CDiv(sums[1], sums[2])

\* The residual function of bruggerman_mixing_model (lines 407-415) at
\* epsilon_eff = complex(x[0], x[1]).
equation(epsilon_eff, volume_fractions, epsilon_values) ==
    ratio(equation_sums(epsilon_eff, volume_fractions, epsilon_values, 1, CZero, CZero))

\* The point the solver's iteration moves to from the initial guess: the
\* fraction-weighted mean of the permittivities, where the numerator vanishes.
weighted_mean(volume_fractions, epsilon_values) ==
    Cx(FDiv(FSum([i \in 1..Len(volume_fractions) |->
                     FMul(epsilon_values[i][1], volume_fractions[i])]),
            FSum(volume_fractions)),
       FDiv(FSum([i \in 1..Len(volume_fractions) |->
                     FMul(epsilon_values[i][2], volume_fractions[i])]),
            FSum(volume_fractions)))

\* The solver's result given the residuals at the initial guess and at the
\* weighted mean: ier = 1 where the residual vanishes, otherwise the search did
\* not converge (ier = 5) and the initial guess comes back.
solve(initial_guess, residual0, mean, residual1) ==
    IF CIsZero(residual0) THEN [x |-> initial_guess, ier |-> 1]
    ELSE IF CIsZero(residual1) THEN [x |-> mean, ier |-> 1]
    ELSE [x |-> initial_guess, ier |-> 5]

\* fsolve(equation, initial_guess) without full_output (line 421): the
\* convergence flag ier is reported by a warning only and is not returned.
fsolve(volume_fractions, epsilon_values, initial_guess) ==
    solve(initial_guess,
          equation(initial_guess, volume_fractions, epsilon_values),
          weighted_mean(volume_fractions, epsilon_values),
          equation(weighted_mean(volume_fractions, epsilon_values),
                   volume_fractions, epsilon_values))

\* np.array([complex(real, imag) for real, imag in zip(...)]) (line 404)
complex_values(epsilon_values_real, epsilon_values_imag) ==
    [i \in 1..Len(epsilon_values_real) |-> Cx(epsilon_values_real[i], epsilon_values_imag[i])]

\* bruggerman_mixing_model: the solution, with the solver's flag.
bruggerman_mixing_model(volume_fractions, epsilon_values_real, epsilon_values_imag) ==
    fsolve(volume_fractions,
           complex_values(epsilon_values_real, epsilon_values_imag),
           Cx(epsilon_values_real[1], epsilon_values_imag[1]))

\* np.average(values, weights=weights); the weights of the soil never sum to
\* exactly zero, which np.average would refuse.
average(values, weights) ==
    FDiv(FSum([i \in 1..Len(values) |-> FMul(values[i], weights[i])]), FSum(weights))

\* The values np.random.uniform(low, high) is drawn from, for all six minerals
\* at once: every mineral at its lower bound, or every mineral at its upper bound.
UniformDraws(self) == { self.vol_fr_all_range[1], self.vol_fr_all_range[2] }

\* (fractions / total) * 100 (lines 384-385)
normalized_fractions(fractions) ==
    [i \in 1..Len(fractions) |-> FMul(FDiv(fractions[i], FSum(fractions)), Q(100, 1))]

\* Column c of the six minerals.
column(self, c) == [k \in 1..6 |-> self.minerals[k][c]]

\* Lines 394-399 given the solver's result; ier records the flag the code
\* never sees.
MixedMaterial(self, fractions, solution, numID, ID) ==
    [Material(numID, ID) EXCEPT
        !.averagable = FALSE,
        !.er = FDiv(solution.x[1], e0),
        !.se = FMul(FMul(FMul(solution.x[2], Q(2, 1)), FDiv(TwoPi, Q(2, 1))), Q(1, 1000)),
        !.mr = average(column(self, 3), fractions),
        !.sm = average(column(self, 4), fractions),
        !.npfloat = TRUE, !.npmag = TRUE, !.ier = solution.ier]

\* The material made from one sample of fractions (lines 390-400); i is the
\* loop index.
BruggemanMaterial(self, fractions, i, nbins, numID, fractalboxname) ==
    MixedMaterial(self, fractions,
                  bruggerman_mixing_model(fractions, column(self, 1), column(self, 2)),
                  numID, materialID(fractalboxname, i + 1, nbins))

\* The collections the two loops (lines 379-400) can produce from sample i on.
RECURSIVE BruggemanBins(_, _, _, _, _)
BruggemanBins(self, i, nbins, materials, fractalboxname) ==
    IF i >= nbins THEN {materials}
    ELSE UNION { BruggemanBins(self, i + 1, nbins,
                     Append(materials,
                            BruggemanMaterial(self, normalized_fractions(draw), i, nbins,
                                              Len(materials), fractalboxname)),
                     fractalboxname) :
                 draw \in UniformDraws(self) }

\* GenBruggemanSoilMoon.calculate_debye_properties(nbins, G, fractalboxname): the
\* possible outcomes, each the soil object and G.materials after the call.
GenBruggemanSoilMoon_calculate_debye_properties(self, nbins, materials, fractalboxname) ==
    { [self |-> [self EXCEPT !.startmaterialnum = Len(materials)],
       materials |-> ms, err |-> ""] :
          ms \in BruggemanBins(self, 0, nbins, materials, fractalboxname) }

(***************************************************************************)
(* The program's state                                                     *)
(***************************************************************************)
VARIABLES
    materials,               \* G.materials
    maxpoles,                \* Material.maxpoles
    G,                       \* the grid's dt, dx, dy, dz
    updatecoeffsE,           \* G.updatecoeffsE
    updatecoeffsH,           \* G.updatecoeffsH
    updatecoeffsdispersive,  \* G.updatecoeffsdispersive
    soil,                    \* a PeplinskiSoil object
    moon,                    \* a GenBruggemanSoilMoon object
    op,                      \* the last call: its name, arguments and exception, and
                             \* the <<numID, ID>> of every material before it
    calls,                   \* the number of calls of process_materials so far
    runs,                    \* the number of synthesizer runs so far
    boxes,                   \* the fractal box names given to the synthesizers so far
    probe                    \* a call of a pure function: its arguments and result

vars == <<materials, maxpoles, G, updatecoeffsE, updatecoeffsH, updatecoeffsdispersive,
          soil, moon, op, calls, runs, boxes, probe>>

\* Bounds of the model.
MaxMaterials == 4

MaxBins == 2

MaxCalls == 2

MaxRuns == 2

MaxEps == 5

MaxFraction == 2

\* The grids of the model: dt, dx, dy, dz are positive and fixed during a run.
Grids ==
    { [dt |-> Q(1, 1), dx |-> Q(1, 1), dy |-> Q(1, 1), dz |-> Q(1, 1)],
      [dt |-> Q(1, 2), dx |-> Q(1, 1), dy |-> Q(2, 1), dz |-> Q(1, 2)] }

\* The fractal box names given to the synthesizers.
Boxes == { <<"a">>, <<"b">> }

\* The bin counts given to the Peplinski synthesizer where several runs follow
\* each other: one bin, several, and a count of two digits.
BinCounts == { 1, 2, 10 }

\* The names of explicitly constructed materials.
Names == { PecID, <<"m">> }

\* The constitutive parameters given to explicitly constructed materials: free
\* space, a material with er = se = 0, an infinitely conducting one, and Debye,
\* Lorentz and Drude materials, among them a Lorentz pole with tau = alpha = 0,
\* a Drude pole with alpha = 0 and a dispersive material with infinite se.
Param(type, poles, er, se, deltaer, tau, alpha) ==
    [type |-> type, poles |-> poles, er |-> er, se |-> se,
     deltaer |-> deltaer, tau |-> tau, alpha |-> alpha]

FreeSpace == Param("", 0, Q(1, 1), Q(0, 1), <<>>, <<>>, <<>>)

Params ==
    { FreeSpace,
      Param("", 0, Q(0, 1), Q(0, 1), <<>>, <<>>, <<>>),
      Param("", 0, Q(3, 1), Inf, <<>>, <<>>, <<>>),
      Param("debye", 1, Q(2, 1), Q(1, 2), <<Q(2, 1)>>, <<Q(1, 1)>>, <<>>),
      Param("debye", 1, Q(2, 1), Inf, <<Q(2, 1)>>, <<Q(1, 1)>>, <<>>),
      Param("lorentz", 3, Q(1, 1), Q(0, 1), <<Q(1, 1), Q(2, 1), Q(1, 1)>>,
            <<Q(1, 1), Q(1, 2), Q(1, 4)>>, <<Q(1, 1), Q(0, 1), Q(1, 2)>>),
      Param("lorentz", 1, Q(1, 1), Q(0, 1), <<Q(1, 1)>>, <<Q(0, 1)>>, <<Q(0, 1)>>),
      Param("drude", 2, Q(1, 1), Q(1, 1), <<>>, <<Q(1, 1), Q(1, 2)>>, <<Q(1, 1), Q(2, 1)>>),
      Param("drude", 1, Q(1, 1), Q(0, 1), <<>>, <<Q(1, 1)>>, <<Q(0, 1)>>) }

\* A material with the given name, number and parameters; numpy says whether
\* its er, se and deltaer are numpy scalars.
Constructed(numID, ID, p, numpy) ==
    [Material(numID, ID) EXCEPT
        !.type = p.type, !.poles = p.poles, !.er = p.er, !.se = p.se,
        !.deltaer = p.deltaer, !.tau = p.tau, !.alpha = p.alpha, !.npfloat = numpy]

\* The soils of the model: a Peplinski soil with water fractions from 0 to 1,
\* the same soil with water fractions from 1/4 to 13/16, a lunar soil, and a
\* lunar soil none of whose minerals is present.
Soil ==
    PeplinskiSoil(<<"s">>, Q(1, 2), Q(1, 2), Q(2, 1), Q(266, 100), <<Q(0, 1), Q(1, 1)>>)

DampSoil ==
    PeplinskiSoil(<<"s">>, Q(1, 2), Q(1, 2), Q(2, 1), Q(266, 100), <<Q(1, 4), Q(13, 16)>>)

Moon ==
    GenBruggemanSoilMoon(<<"r">>,
        <<Q(5, 1), Q(1, 1), Q(10, 1), Q(5, 1), Q(40, 1), Q(8, 1)>>,
        <<Q(20, 1), Q(10, 1), Q(25, 1), Q(12, 1), Q(50, 1), Q(15, 1)>>, Q(1, 64))

EmptyMoon ==
    GenBruggemanSoilMoon(<<"r">>,
        <<Q(0, 1), Q(0, 1), Q(0, 1), Q(0, 1), Q(0, 1), Q(0, 1)>>,
        <<Q(0, 1), Q(0, 1), Q(0, 1), Q(0, 1), Q(0, 1), Q(0, 1)>>, Q(1, 64))

\* The <<numID, ID>> of every material of a collection.
Identities(ms) == [k \in 1..Len(ms) |-> <<ms[k].numID, ms[k].ID>>]

\* The record of a call: its arguments, the exception it raised, the identities
\* in the collection before it, and the water fractions it sampled (none but
\* for the Peplinski synthesizer).
Call(name, err, nbins, box) ==
    [name |-> name, err |-> err, nbins |-> nbins, box |-> box, prior |-> Identities(materials),
     mumaterials |-> <<>>]

\* No call of a pure function.
NoProbe ==
    [fn |-> "", done |-> FALSE, self |-> Material(0, <<>>), freq |-> Q(0, 1),
     volume_fractions |-> <<>>, epsilon_values |-> <<>>, x |-> <<0, 0>>,
     result |-> Returned(CZero, "")]

\* The calls of calculate_er: every parameter set, with Python or numpy
\* scalars, at the frequencies 0, 1/2, 1 and 2.
ErProbes ==
    { [NoProbe EXCEPT !.fn = "calculate_er", !.self = Constructed(0, <<"m">>, p, numpy),
                      !.freq = Q(f, 2)] :
          p \in Params, numpy \in BOOLEAN, f \in {0, 1, 2, 4} }

\* The calls of the residual function: two components with integer
\* permittivities and volume fractions, at an integer point x[1] + 1j * x[2].
EquationProbes ==
    { [NoProbe EXCEPT !.fn = "equation", !.volume_fractions = <<f1, f2>>,
                      !.epsilon_values = <<e1, e2>>, !.x = <<x1, x2>>] :
          f1 \in 1..MaxFraction, f2 \in 1..MaxFraction,
          e1 \in 1..MaxEps, e2 \in 1..MaxEps, x1 \in 1..MaxEps, x2 \in 0..1 }

\* The state after construction of the grid and of the two soil objects.
Start(grids, soils, moons, probes) ==
    /\ materials = <<>>
    /\ maxpoles = 0
    /\ G \in grids
    /\ updatecoeffsE = <<>>
    /\ updatecoeffsH = <<>>
    /\ updatecoeffsdispersive = <<>>
    /\ soil \in soils
    /\ moon \in moons
    /\ op = [name |-> "", err |-> "", nbins |-> 0, box |-> <<>>, prior |-> <<>>,
             mumaterials |-> <<>>]
    /\ calls = 0
    /\ runs = 0
    /\ boxes = {}
    /\ probe \in probes

Init == Start(Grids, {Soil}, {Moon}, {NoProbe})

\* An uncaught exception ends the run.
Running == op.err = ""

\* Explicit construction of a material by the grid's owner: the next numID, a
\* name not in use, the given parameters, and the maxpoles watermark raised to
\* the material's pole count.
AddMaterial(ID, p) ==
    /\ Running
    /\ \A k \in 1..Len(materials) : materials[k].ID # ID
    /\ materials' = Append(materials, Constructed(Len(materials), ID, p, FALSE))
    /\ maxpoles' = IF p.poles > maxpoles THEN p.poles ELSE maxpoles
    /\ op' = Call("Material", "", 0, <<>>)
    /\ UNCHANGED <<G, updatecoeffsE, updatecoeffsH, updatecoeffsdispersive, soil, moon,
                   calls, runs, boxes, probe>>

\* soil.calculate_debye_properties(nbins, G, fractalboxname)
Peplinski(nbins, fractalboxname) ==
    /\ Running
    /\ \E r \in { PeplinskiSoil_calculate_debye_properties(soil, nbins, materials, maxpoles,
                                                           fractalboxname) } :
           /\ soil' = r.self
           /\ materials' = r.materials
           /\ maxpoles' = r.maxpoles
           /\ op' = [Call("PeplinskiSoil.calculate_debye_properties", r.err, nbins,
                          fractalboxname) EXCEPT !.mumaterials = r.mumaterials]
    /\ runs' = runs + 1
    /\ boxes' = boxes \cup {fractalboxname}
    /\ UNCHANGED <<G, updatecoeffsE, updatecoeffsH, updatecoeffsdispersive, moon, calls, probe>>

\* moon.calculate_debye_properties(nbins, G, fractalboxname)
Bruggeman(nbins, fractalboxname) ==
    /\ Running
    /\ \E r \in GenBruggemanSoilMoon_calculate_debye_properties(moon, nbins, materials,
                                                                fractalboxname) :
           /\ moon' = r.self
           /\ materials' = r.materials
           /\ op' = Call("GenBruggemanSoilMoon.calculate_debye_properties", r.err, nbins,
                         fractalboxname)
    /\ runs' = runs + 1
    /\ boxes' = boxes \cup {fractalboxname}
    /\ UNCHANGED <<maxpoles, G, updatecoeffsE, updatecoeffsH, updatecoeffsdispersive, soil,
                   calls, probe>>

\* process_materials(G), on tables the caller has sized for the collection.
ProcessMaterials ==
    /\ Running
    /\ calls < MaxCalls
    /\ \E r \in { process_materials(materials, ZeroTables(Len(materials), maxpoles), G,
                                    maxpoles) } :
           /\ materials' = r.materials
           /\ updatecoeffsE' = r.E
           /\ updatecoeffsH' = r.H
           /\ updatecoeffsdispersive' = r.D
           /\ op' = Call("process_materials", r.err, 0, <<>>)
    /\ calls' = calls + 1
    /\ UNCHANGED <<maxpoles, G, soil, moon, runs, boxes, probe>>

\* material.calculate_er(freq) on the arguments of the probe.
EvalEr ==
    /\ probe.fn = "calculate_er"
    /\ ~probe.done
    /\ probe' = [probe EXCEPT !.done = TRUE, !.result = calculate_er(probe.self, probe.freq)]
    /\ UNCHANGED <<materials, maxpoles, G, updatecoeffsE, updatecoeffsH,
                   updatecoeffsdispersive, soil, moon, op, calls, runs, boxes>>

\* The integers of a probe as floats, and as complex numbers.
Floats(ns) == [i \in 1..Len(ns) |-> Q(ns[i], 1)]

Complexes(ns) == [i \in 1..Len(ns) |-> CReal(Q(ns[i], 1))]

\* equation(x) on the arguments of the probe.
EvalEquation ==
    /\ probe.fn = "equation"
    /\ ~probe.done
    /\ probe' = [probe EXCEPT
                    !.done = TRUE,
                    !.result = Returned(equation(Cx(Q(probe.x[1], 1), Q(probe.x[2], 1)),
                                                 Floats(probe.volume_fractions),
                                                 Complexes(probe.epsilon_values)), "")]
    /\ UNCHANGED <<materials, maxpoles, G, updatecoeffsE, updatecoeffsH,
                   updatecoeffsdispersive, soil, moon, op, calls, runs, boxes>>

\* The life of a model: materials are constructed, the soil makes its
\* materials, and the coefficients are computed.
Next ==
    \/ \E ID \in Names, p \in Params :
           Len(materials) < MaxMaterials /\ AddMaterial(ID, p)
    \/ \E nbins \in 1..MaxBins :
           Len(materials) + nbins <= MaxMaterials /\ Peplinski(nbins, <<"a">>)
    \/ ProcessMaterials

Spec == Init /\ [][Next]_vars

\* The synthesizers at work: some materials are constructed first, and the two
\* synthesizers then run in any order, with any of the box names.
InitSynth ==
    \/ Start({CHOOSE g \in Grids : TRUE}, {DampSoil}, {Moon}, {NoProbe})
    \/ Start({CHOOSE g \in Grids : TRUE}, {Soil}, {EmptyMoon}, {NoProbe})

NextSynth ==
    \/ \E ID \in Names : runs = 0 /\ AddMaterial(ID, FreeSpace)
    \/ \E nbins \in BinCounts, box \in Boxes : runs < MaxRuns /\ Peplinski(nbins, box)
    \/ \E nbins \in 1..MaxBins, box \in Boxes : runs < MaxRuns /\ Bruggeman(nbins, box)

SpecSynth == InitSynth /\ [][NextSynth]_vars

\* The pure functions, each applied once to the arguments drawn at the start.
InitPure == Start({CHOOSE g \in Grids : TRUE}, {Soil}, {Moon}, ErProbes \cup EquationProbes)

NextPure == EvalEr \/ EvalEquation

SpecPure == InitPure /\ [][NextPure]_vars

(***************************************************************************)
(* Properties                                                              *)
(***************************************************************************)
\* The bulk parameters and the electric coefficients of a material.
BulkAndCoefficients(m) == <<m.er, m.se, m.mr, m.sm, m.CA, m.CBx, m.CBy, m.CBz, m.srce>>

\* C1: the coefficient computation is idempotent for an unchanged grid: a call
\* of process_materials leaves er, se, mr, sm and CA, CBx, CBy, CBz, srce of
\* every material whose coefficients had been computed before as they were.
C1_Idempotent ==
    [][calls' = calls + 1 =>
          \A k \in 1..Len(materials) :
              materials[k].hasE =>
                  BulkAndCoefficients(materials'[k]) = BulkAndCoefficients(materials[k])]_vars

\* C2: after calculate_update_coeffsE on a material named 'pec' or with
\* se = +infinity, CA, CBx, CBy, CBz and srce are exactly zero.
C2_PecCoefficientsZero ==
    \A k \in 1..Len(materials) :
        (materials[k].hasE /\ (materials[k].ID = PecID \/ materials[k].se = Inf)) =>
            /\ materials[k].CA = Q(0, 1)
            /\ materials[k].CBx = Q(0, 1)
            /\ materials[k].CBy = Q(0, 1)
            /\ materials[k].CBz = Q(0, 1)
            /\ materials[k].srce = Q(0, 1)

\* A dispersive material of infinite conductivity under another name, and a
\* finitely conducting material named 'pec', both with their coefficients computed.
C2_Witness ==
    /\ \E k \in 1..Len(materials) :
           /\ materials[k].hasE /\ materials[k].se = Inf /\ materials[k].ID # PecID
           /\ materials[k].poles > 0 /\ materials[k].CA = Q(0, 1)
    /\ \E k \in 1..Len(materials) :
           /\ materials[k].hasE /\ materials[k].ID = PecID /\ materials[k].se # Inf
           /\ materials[k].CA = Q(0, 1)

\* Every entry of a table of real rows, or of complex rows, is a finite number.
RealTableFinite(t) == \A r \in 1..Len(t) : \A c \in 1..Len(t[r]) : IsFinite(t[r][c])

ComplexTableFinite(t) == \A r \in 1..Len(t) : \A c \in 1..Len(t[r]) : CIsFinite(t[r][c])

\* C3: a zero or degenerate denominator is refused with a configuration error:
\* process_materials raises nothing else, and no NaN or infinite value reaches
\* the coefficient tables.
C3_DegenerateRefused ==
    /\ (op.name = "process_materials" /\ op.err # "") => op.err = "ConfigurationError"
    /\ RealTableFinite(updatecoeffsE)
    /\ ComplexTableFinite(updatecoeffsdispersive)

\* C4: after any runs of the two synthesizers the material at position i has
\* numID i, the materials present before the last call are still there in
\* their places, and a run that appended materials has set startmaterialnum
\* to the numID of the first of them.
C4_SequentialNumID ==
    /\ \A k \in 1..Len(materials) : materials[k].numID = k - 1
    /\ Len(op.prior) <= Len(materials)
    /\ \A k \in 1..Len(op.prior) : <<materials[k].numID, materials[k].ID>> = op.prior[k]
    /\ (op.name = "PeplinskiSoil.calculate_debye_properties"
            /\ Len(materials) > Len(op.prior)) =>
           soil.startmaterialnum = materials[Len(op.prior) + 1].numID
    /\ (op.name = "GenBruggemanSoilMoon.calculate_debye_properties"
            /\ Len(materials) > Len(op.prior)) =>
           moon.startmaterialnum = materials[Len(op.prior) + 1].numID

\* Both synthesizers have run on a collection that began with an explicitly
\* constructed material, and the last run appended materials.
C4_Witness ==
    /\ runs = 2
    /\ op.err = ""
    /\ Len(op.prior) > 1
    /\ Len(materials) > Len(op.prior)
    /\ materials[1].ID \in Names
    /\ soil.startmaterialnum > 0
    /\ moon.startmaterialnum > 0

\* C5: no two materials of G.materials have the same ID, whatever synthesizer
\* runs, bin counts and fractal box names produced them.
C5_UniqueIDs ==
    \A j \in 1..Len(materials) : \A k \in 1..Len(materials) :
        materials[j].ID = materials[k].ID => j = k

\* The largest pole count of a collection.
RECURSIVE mostpoles(_)
mostpoles(ms) ==
    IF ms = <<>> THEN 0
    ELSE IF Head(ms).poles > mostpoles(Tail(ms)) THEN Head(ms).poles ELSE mostpoles(Tail(ms))

\* C6: once process_materials has run, Material.maxpoles is the largest pole
\* count, no material has more poles, and w, q, eqt, eqt2, zt, zt2 of every
\* material have exactly Material.maxpoles entries.
C6_Watermark ==
    (op.name = "process_materials" /\ op.err = "") =>
        /\ maxpoles = mostpoles(materials)
        /\ \A k \in 1..Len(materials) :
               /\ materials[k].poles <= maxpoles
               /\ Len(materials[k].w) = maxpoles
               /\ Len(materials[k].q) = maxpoles
               /\ Len(materials[k].eqt) = maxpoles
               /\ Len(materials[k].eqt2) = maxpoles
               /\ Len(materials[k].zt) = maxpoles
               /\ Len(materials[k].zt2) = maxpoles

\* process_materials has run on a material of one pole created before a
\* material of three poles raised the watermark.
C6_Witness ==
    /\ op.name = "process_materials"
    /\ op.err = ""
    /\ maxpoles = 3
    /\ \E j \in 1..Len(materials) : \E k \in 1..Len(materials) :
           /\ j < k
           /\ materials[j].poles = 1
           /\ materials[k].poles = 3
           /\ Len(materials[j].w) = 3

\* C7: a run of the Peplinski synthesizer with nbins >= 1 appends exactly nbins
\* materials; the k-th is named '|box_K|' with K = k padded with zeros to the
\* digits of nbins, of type 'debye', with one pole, one deltaer and one tau.
C7_PeplinskiAppendsBins ==
    op.name = "PeplinskiSoil.calculate_debye_properties" =>
        /\ Len(materials) = Len(op.prior) + op.nbins
        /\ \A k \in 1..op.nbins :
               /\ materials[Len(op.prior) + k].ID
                      = <<"|">> \o op.box \o <<"_">>
                            \o zfill(str(k), Len(str(op.nbins))) \o <<"|">>
               /\ materials[Len(op.prior) + k].type = "debye"
               /\ materials[Len(op.prior) + k].poles = 1
               /\ Len(materials[Len(op.prior) + k].deltaer) = 1
               /\ Len(materials[Len(op.prior) + k].tau) = 1

\* C8: calculate_er at the frequency 0 signals an error for every material.
C8_ZeroFrequencyRejected ==
    (probe.fn = "calculate_er" /\ probe.done /\ IsZero(probe.freq)) => probe.result.err # ""

\* C9: a sample whose solve did not converge makes the run fail, and no
\* material made from a solve that did not converge is in G.materials.
C9_NonConvergenceSurfaced ==
    \A k \in 1..Len(materials) : materials[k].ier = 1

\* Complex integers: product and sum.
ICMul(a, b) == <<a[1] * b[1] - a[2] * b[2], a[1] * b[2] + a[2] * b[1]>>

ICAdd(a, b) == <<a[1] + b[1], a[2] + b[2]>>

\* sum_i f_i * (eps_i - x) / (eps_i + 2 x) for two components, multiplied by
\* the two denominators (none of which is zero for positive permittivities
\* and a point of positive real part).
BruggemanSum(f, eps, x) ==
    ICAdd(ICMul(<<f[1] * (eps[1] - x[1]), -f[1] * x[2]>>, <<eps[2] + 2 * x[1], 2 * x[2]>>),
          ICMul(<<f[2] * (eps[2] - x[1]), -f[2] * x[2]>>, <<eps[1] + 2 * x[1], 2 * x[2]>>))

\* C10: the residual function the solver drives to zero vanishes at a point
\* exactly when the sum of the per-component ratios f_i (eps_i - x) / (eps_i + 2 x)
\* vanishes there.
C10_ResidualIsBruggeman ==
    (probe.fn = "equation" /\ probe.done) =>
        (CIsZero(probe.result.value)
            <=> BruggemanSum(probe.volume_fractions, probe.epsilon_values, probe.x) = <<0, 0>>)

\* C11: the water fractions a run of the Peplinski synthesizer samples are the
\* midpoints of nbins equal-width bins spanning [mu_lo, mu_hi]: there are nbins
\* of them, the k-th (k = 0..nbins-1) is mu_lo + (k + 1/2) (mu_hi - mu_lo) / nbins
\* to within the rounding of the arithmetic (one unit of 1/Scale per bin), every
\* one lies strictly inside [mu_lo, mu_hi], and they strictly increase.
C11_BinMidpoints ==
    (op.name = "PeplinskiSoil.calculate_debye_properties" /\ op.err = "") =>
        /\ Len(op.mumaterials) = op.nbins
        /\ \A k \in 1..Len(op.mumaterials) :
               /\ IsFinite(op.mumaterials[k])
               /\ Abs(2 * op.nbins * (op.mumaterials[k][1] - soil.mu[1][1])
                          - (2 * k - 1) * (soil.mu[2][1] - soil.mu[1][1]))
                      <= 2 * op.nbins * op.nbins
               /\ soil.mu[1][1] < op.mumaterials[k][1]
               /\ op.mumaterials[k][1] < soil.mu[2][1]
               /\ k > 1 => op.mumaterials[k - 1][1] < op.mumaterials[k][1]

====
